---- MODULE Spec2Model ----
(***************************************************************************)
(* B2B marketplace scraper (src/scraper1_app.py): the Streamlit script's   *)
(* start button, run_scraper with its browser session, the per-task        *)
(* fetch / extract / filter / collect loop, and fuzzy_match_brand.         *)
(* Strings are sequences of one-character strings.                         *)
(***************************************************************************)
EXTENDS Integers, Sequences, FiniteSets, TLC

(* ------------------------------ bounds -------------------------------- *)
\* rows of the uploaded table
MaxRows == 2
\* columns of the uploaded table whose name contains 'Keyword'
MaxKwCols == 1
\* len(df_input) * keyword columns * active sites of the tables drawn
MaxOps == 2
\* elements one page hands back over all its selector queries
MaxLinks == 2
\* largest "Max Links Per Site" drawn (the widget allows 1..50)
MaxCap == 2
\* lengths of the text and brand drawn for fuzzy_match_brand alone
MaxTextLen == 3
MaxBrandLen == 2

(* ------------------------------ strings ------------------------------- *)
\* a string that is absent (Python's None, pandas' NaN): no string of characters
None == <<"None">>
NaN == <<"NaN">>
\* no exception pending; a boolean local not set
NoExc == "none"
Unset == "unset"
PyBool(b) == IF b THEN "True" ELSE "False"

Min(a, b) == IF a <= b THEN a ELSE b

\* str.lower() on the characters the model uses
LowerChar(c) ==
    CASE c = "A" -> "a"
      [] c = "B" -> "b"
      [] c = "C" -> "c"
      [] c = "E" -> "e"
      [] c = "K" -> "k"
      [] c = "M" -> "m"
      [] OTHER -> c

Lower(s) == [i \in 1..Len(s) |-> LowerChar(s[i])]

\* Python's `sub in text` on strings
Contains(text, sub) ==
    \E i \in 0..(Len(text) - Len(sub)) : SubSeq(text, i + 1, i + Len(sub)) = sub

\* str.strip(): whitespace is the blank
RECURSIVE LStrip(_)
LStrip(s) == IF s # <<>> /\ Head(s) = " " THEN LStrip(Tail(s)) ELSE s

RECURSIVE RStrip(_)
RStrip(s) ==
    IF s # <<>> /\ s[Len(s)] = " " THEN RStrip(SubSeq(s, 1, Len(s) - 1)) ELSE s

Strip(s) == RStrip(LStrip(s))

\* str.split(): the maximal runs of non-blank characters, in order
WordStarts(s) == {i \in 1..Len(s) : s[i] # " " /\ (i = 1 \/ s[i - 1] = " ")}

WordEnd(s, i) ==
    CHOOSE j \in i..Len(s) :
        /\ \A m \in i..j : s[m] # " "
        /\ j = Len(s) \/ s[j + 1] = " "

Split(s) ==
    LET starts == SelectSeq([i \in 1..Len(s) |-> i], LAMBDA i : i \in WordStarts(s))
    IN  [n \in 1..Len(starts) |-> SubSeq(s, starts[n], WordEnd(s, starts[n]))]

(* difflib.SequenceMatcher(None, a, b), no junk, autojunk idle below 200  *)
\* the first place of `sub` in `s`, counted from 0 (s.find(sub), sub in s)
FirstAt(s, sub) ==
    CHOOSE j \in 0..(Len(s) - Len(sub)) :
        /\ SubSeq(s, j + 1, j + Len(sub)) = sub
        /\ \A d \in 0..(j - 1) : SubSeq(s, d + 1, d + Len(sub)) # sub

\* some block of a of length k lies in b
HasBlock(a, b, k) ==
    \E i \in 0..(Len(a) - k) : Contains(b, SubSeq(a, i + 1, i + k))

\* the length of the longest block a and b share
LongestLen(a, b) ==
    CHOOSE k \in 0..Min(Len(a), Len(b)) :
        /\ HasBlock(a, b, k)
        /\ \A m \in (k + 1)..Min(Len(a), Len(b)) : ~HasBlock(a, b, m)

\* where in a the first block of length k that lies in b starts, from 0
FirstBlock(a, b, k) ==
    CHOOSE i \in 0..(Len(a) - k) :
        /\ Contains(b, SubSeq(a, i + 1, i + k))
        /\ \A d \in 0..(i - 1) : ~Contains(b, SubSeq(a, d + 1, d + k))

\* find_longest_match on whole strings: <<i, j, k>> with a[i:i+k] == b[j:j+k],
\* k largest, then i smallest, then j smallest
BlockAt(a, b, i, k) == <<i, FirstAt(b, SubSeq(a, i + 1, i + k)), k>>
LongestAt(a, b, k) == IF k = 0 THEN <<0, 0, 0>> ELSE BlockAt(a, b, FirstBlock(a, b, k), k)
FindLongestMatch(a, b) == LongestAt(a, b, LongestLen(a, b))

\* get_matching_blocks: the longest block, then the same to its left and to its
\* right; the sum of the block sizes
RECURSIVE Matches(_, _)
MatchesAround(a, b, m) ==
    IF m[3] = 0
    THEN 0
    ELSE m[3]
         + Matches(SubSeq(a, 1, m[1]), SubSeq(b, 1, m[2]))
         + Matches(SubSeq(a, m[1] + m[3] + 1, Len(a)), SubSeq(b, m[2] + m[3] + 1, Len(b)))
Matches(a, b) ==
    IF a = <<>> \/ b = <<>> THEN 0 ELSE MatchesAround(a, b, FindLongestMatch(a, b))

\* ratio() * 100 >= threshold, with ratio() = 2.0 * matches / (len(a) + len(b))
\* and 1.0 for two empty strings; in integers
RatioAtLeast(a, b, threshold) ==
    IF Len(a) + Len(b) = 0
    THEN 100 >= threshold
    ELSE 200 * Matches(a, b) >= threshold * (Len(a) + Len(b))

\* the shortest word the fuzzy comparison looks at
MinWordLen == 3

\* a faulty variant: the brand is compared as written, not lowercased
fuzzy_match_brand_cased(enabled, text, brand_name, threshold) ==
    IF ~enabled
    THEN Contains(Lower(text), brand_name)
    ELSE \/ Contains(Lower(text), brand_name)
         \/ \E w \in 1..Len(Split(Lower(text))) :
               /\ Len(Split(Lower(text))[w]) >= MinWordLen
               /\ RatioAtLeast(brand_name, Split(Lower(text))[w], threshold)

\* fuzzy_match_brand(text, brand_name, threshold), reading the global fuzzy_enabled
fuzzy_match_brand(enabled, text, brand_name, threshold) ==
    LET text_lower == Lower(text)
        brand_lower == Lower(brand_name)
        words == Split(text_lower)
    IN  IF ~enabled
        THEN Contains(text_lower, brand_lower)
        ELSE \/ Contains(text_lower, brand_lower)
             \/ \E w \in 1..Len(words) :
                   /\ Len(words[w]) >= MinWordLen
                   /\ RatioAtLeast(brand_lower, words[w], threshold)


Acme == <<"A", "c", "m", "e">>
Shoes == <<"s", "h", "o", "e", "s">>

(* --------------------------- site profiles ---------------------------- *)
SiteOrder == <<"Alibaba", "DHgate", "Made-in-China">>

\* all_configs of get_site_configs: the fields the scraping loop branches on
all_configs ==
    ("Alibaba" :>
        [url_encoding |-> "%20",
         product_selector |-> "a[href*=/product-detail/]",
         brand_in_url |-> TRUE,
         domain_check |-> <<"a", "l", "i", "b", "a", "b", "a", ".", "c", "o", "m">>,
         additional_selectors |-> <<>>])
    @@ ("DHgate" :>
        [url_encoding |-> "+",
         product_selector |-> "a[href*=/product/]",
         brand_in_url |-> FALSE,
         domain_check |-> <<"d", "h", "g", "a", "t", "e", ".", "c", "o", "m">>,
         additional_selectors |-> <<>>])
    @@ ("Made-in-China" :>
        [url_encoding |-> "-",
         product_selector |-> "a[href*=/product/]",
         brand_in_url |-> FALSE,
         domain_check |-> <<"m", "a", "d", "e", "-", "i", "n", "-", "c", "h", "i", "n", "a", ".", "c", "o", "m">>,
         additional_selectors |-> <<"a[href*=/prod/]", ".item-link a", ".product-item a">>])

\* get_site_configs(): the profiles whose checkbox is ticked, in dict order
get_site_configs(config) == SelectSeq(SiteOrder, LAMBDA s : s \in config)

\* selected_sites of the configuration summary
selected_sites(config) == SelectSeq(SiteOrder, LAMBDA s : s \in config)

(* ------------------------ pages the browser shows --------------------- *)

\* the anchor elements a result page of `site` can hold, by number:
\*  1 a listing on the site's domain naming the brand in its path and its title
\*  2 a listing on the site's domain whose text is one letter off the brand
\*  3 a link that leaves the site's domain and names the brand throughout; on
\*    DHgate pages an anchor without href
ElementIds == 1..3

Element(site, id) ==
    CASE id = 1 -> [href |-> all_configs[site].domain_check \o <<"/", "A", "c", "m", "e">>,
                    text |-> <<" ", "x", " ">>,
                    title |-> <<"A", "C", "M", "E">>,
                    alt |-> None]
      [] id = 2 -> [href |-> all_configs[site].domain_check \o <<"/", "p", "2">>,
                    text |-> <<"a", "k", "m", "e">>,
                    title |-> None,
                    alt |-> <<"z">>]
      [] OTHER  -> [href |-> IF site = "DHgate"
                             THEN None
                             ELSE <<"x", ".", "i", "o", "/", "A", "c", "m", "e">>,
                    text |-> <<"A", "c", "m", "e">>,
                    title |-> None,
                    alt |-> None]

\* the sequences of at most n elements a selector query can return
RECURSIVE ElementSeqs(_)
ElementSeqs(n) ==
    IF n <= 0
    THEN {<<>>}
    ELSE ElementSeqs(n - 1)
         \cup {Append(q, e) : q \in {r \in ElementSeqs(n - 1) : Len(r) = n - 1},
                              e \in ElementIds}

(* --------------------------- uploaded table --------------------------- *)
KeywordColumns == <<"Keyword1", "Keyword2", "Keyword3">>

\* `'Keyword' in col` on the column names the model draws
IsKeywordCol(col) == \E i \in 1..Len(KeywordColumns) : KeywordColumns[i] = col

\* keyword_cols / [col for col in df_input.columns if 'Keyword' in col]
keyword_cols(df) == SelectSeq(df.columns, IsKeywordCol)

\* the tables pd.read_csv can hand over: a 'Brand' column or a 'Name' column
\* in its place, at most MaxKwCols keyword columns, at most MaxRows rows,
\* a keyword cell holding a keyword or nothing (NaN)
ColumnLists ==
    {<<first>> \o SubSeq(KeywordColumns, 1, n) :
        first \in {"Brand", "Name"}, n \in 0..MaxKwCols}

RowsOver(columns) ==
    LET cols == {columns[i] : i \in 1..Len(columns)}
    IN  {r \in [cols -> {Acme, Shoes, NaN}] :
            \A c \in cols : IF IsKeywordCol(c) THEN r[c] \in {Shoes, NaN}
                                               ELSE r[c] = Acme}

RECURSIVE RowSeqs(_, _)
RowSeqs(columns, n) ==
    IF n = 0
    THEN {<<>>}
    ELSE RowSeqs(columns, n - 1)
         \cup {Append(q, r) : q \in {t \in RowSeqs(columns, n - 1) : Len(t) = n - 1},
                              r \in RowsOver(columns)}

Tables ==
    UNION {{[columns |-> c, rows |-> r] : r \in RowSeqs(c, MaxRows)} : c \in ColumnLists}

\* df_input before a file is uploaded
NoTable == [columns |-> <<>>, rows |-> <<>>]

\* lines 112-117: what the preview says about the columns
Validation(df) ==
    IF ~\E i \in 1..Len(df.columns) : df.columns[i] = "Brand"
    THEN "error_brand"
    ELSE IF keyword_cols(df) = <<>> THEN "error_keyword" ELSE "success"

\* pd.notna(row[col])
notna(v) == v # NaN

\* line 224: the row's keywords, column order, empty cells left out
RowKeywords(row, columns) ==
    LET kc == SelectSeq(columns, LAMBDA c : IsKeywordCol(c) /\ notna(row[c]))
    IN  [i \in 1..Len(kc) |-> row[kc[i]]]

\* a faulty variant: the active sites are left out of the product
TotalOperationsNoSites(df, sites) == Len(df.rows) * Len(keyword_cols(df))

\* line 219: total_operations
TotalOperations(df, sites) == Len(df.rows) * Len(keyword_cols(df)) * Len(sites)


(* ------------------------------- state -------------------------------- *)
VARIABLES
    \* sidebar and upload (lines 69-95, 103-105)
    sites_config, fuzzy_enabled, fuzzy_threshold, max_links_per_site,
    uploaded_csv, df_input,
    \* run_scraper's position and locals
    pc, driver, sites, results, total_operations, current_operation,
    row_idx, brand, keywords, kw_idx, site_idx,
    unique_links, links, link_idx, sel_idx, should_add, exc,
    \* what the run shows and does to the outside: the messages on the page,
    \* the progress fractions, the tasks fetched, the selectors queried in the
    \* task, the tasks warned about, the sessions started and closed, and of
    \* the task under way or just over: len(results) at its start, how it went,
    \* the hrefs its handler threw away
    messages, progress_log, fetched, queries, warnings,
    starts, quits, rows_before, task_state, dropped,
    \* one call of fuzzy_match_brand on its own
    text, brand_name, threshold, returned

cfgVars == <<sites_config, fuzzy_enabled, fuzzy_threshold, max_links_per_site,
             uploaded_csv, df_input>>
loopVars == <<sites, total_operations, current_operation, row_idx, brand,
              keywords, kw_idx, site_idx>>
taskVars == <<unique_links, links, link_idx, sel_idx, should_add>>
noteVars == <<queries, rows_before, task_state, dropped>>
logVars == <<progress_log, fetched, warnings>>
sessVars == <<driver, starts, quits>>
callVars == <<text, brand_name, threshold, returned>>
vars == <<cfgVars, pc, loopVars, taskVars, sessVars, callVars, results, exc,
          messages, noteVars, logVars>>

\* the slider: 70..100 in steps of 5; 100 when fuzzy matching is off (line 85)
Thresholds == {70 + 5 * k : k \in 0..6}
ThresholdOff == 100
\* the thresholds a run is started with
RunThresholds == {70, 80}

\* run_scraper has not been entered: no locals, nothing shown
RunIdle ==
    /\ pc = "idle"
    /\ driver = "none" /\ starts = 0 /\ quits = 0
    /\ sites = <<>> /\ results = <<>>
    /\ total_operations = 0 /\ current_operation = 0
    /\ row_idx = 0 /\ brand = None /\ keywords = <<>> /\ kw_idx = 0 /\ site_idx = 0
    /\ unique_links = {} /\ links = <<>> /\ link_idx = 0 /\ sel_idx = 0
    /\ should_add = Unset /\ exc = NoExc
    /\ messages = {} /\ progress_log = <<>> /\ fetched = <<>> /\ queries = <<>>
    /\ warnings = <<>> /\ rows_before = 0 /\ task_state = "none" /\ dropped = 0

NoCall ==
    /\ text = <<>> /\ brand_name = <<>> /\ threshold = ThresholdOff /\ returned = Unset

Init ==
    /\ sites_config \in SUBSET {SiteOrder[i] : i \in 1..Len(SiteOrder)}
    /\ fuzzy_enabled \in BOOLEAN
    /\ fuzzy_threshold \in (IF fuzzy_enabled THEN RunThresholds ELSE {ThresholdOff})
    /\ max_links_per_site \in 1..MaxCap
    /\ uploaded_csv \in BOOLEAN
    /\ df_input \in (IF uploaded_csv THEN Tables ELSE {NoTable})
    /\ uploaded_csv =>
          TotalOperations(df_input, get_site_configs(sites_config)) <= MaxOps
    /\ RunIdle
    /\ NoCall

(* ------------------------------ the run ------------------------------- *)
\* lines 302-311 and 197-198: the button is there when a file is uploaded and
\* a site is ticked; the click enters run_scraper
StartScraping ==
    /\ pc \in {"idle", "done"}
    /\ uploaded_csv
    /\ selected_sites(sites_config) # <<>>
    /\ pc' = "driver"
    /\ sites' = get_site_configs(sites_config)
    /\ results' = <<>>
    /\ driver' = "none" /\ starts' = 0 /\ quits' = 0
    /\ total_operations' = 0 /\ current_operation' = 0
    /\ row_idx' = 0 /\ brand' = None /\ keywords' = <<>> /\ kw_idx' = 0
    /\ site_idx' = 0
    /\ unique_links' = {} /\ links' = <<>> /\ link_idx' = 0 /\ sel_idx' = 0
    /\ should_add' = Unset /\ exc' = NoExc
    /\ messages' = {} /\ progress_log' = <<>> /\ fetched' = <<>> /\ queries' = <<>>
    /\ warnings' = <<>> /\ rows_before' = 0 /\ task_state' = "none"
    /\ dropped' = 0
    /\ UNCHANGED <<cfgVars, callVars>>

\* lines 212-213, 219-220: the session starts; the task count is taken
DriverStarted ==
    /\ pc = "driver"
    /\ driver' = "open"
    /\ starts' = starts + 1
    /\ total_operations' = TotalOperations(df_input, sites)
    /\ current_operation' = 0
    /\ pc' = "rows"
    /\ UNCHANGED <<cfgVars, callVars, sites, row_idx, brand, keywords, kw_idx,
                   site_idx, taskVars, quits, results, exc, messages, noteVars,
                   logVars>>

\* a faulty variant: the error is shown and the function goes on into the loop
DriverFailedGoesOn ==
    /\ pc = "driver"
    /\ messages' = {"chrome_error"}
    /\ pc' = "rows"
    /\ UNCHANGED <<cfgVars, callVars, loopVars, taskVars, sessVars, results, exc,
                   noteVars, logVars>>

\* lines 214-216 and 313, 366-367: Chrome does not start; the error is shown,
\* run_scraper returns None and the caller adds its no-results message
DriverFailed ==
    /\ pc = "driver"
    /\ messages' = {"chrome_error", "no_results"}
    /\ pc' = "done"
    /\ UNCHANGED <<cfgVars, callVars, loopVars, taskVars, sessVars, results, exc,
                   noteVars, logVars>>

\* a task's locals that are set again before they are read again
TaskLocalsCleared ==
    /\ unique_links' = {} /\ links' = <<>> /\ link_idx' = 0 /\ sel_idx' = 0
    /\ should_add' = Unset

\* what the page shows once run_scraper is left (lines 296, 313-367)
Shown(rows, e) ==
    IF e # NoExc THEN {"exception"}
    ELSE IF rows # <<>> THEN {"completed"} ELSE {"no_results"}

\* a faulty variant: the session is closed after the loop, not in a finally
LeaveQuitsAfterLoopOnly(e) ==
    /\ IF e = NoExc
       THEN driver' = "quit" /\ quits' = quits + 1
       ELSE UNCHANGED <<driver, quits>>
    /\ exc' = e
    /\ messages' = Shown(results, e)
    /\ results' = (IF e = NoExc THEN results ELSE <<>>)
    /\ pc' = "done"
    /\ sites' = <<>> /\ total_operations' = 0 /\ current_operation' = 0
    /\ row_idx' = 0 /\ brand' = None /\ keywords' = <<>> /\ kw_idx' = 0
    /\ site_idx' = 0
    /\ TaskLocalsCleared
    /\ queries' = <<>> /\ rows_before' = 0 /\ task_state' = "none" /\ dropped' = 0
    /\ UNCHANGED <<cfgVars, callVars, starts, logVars>>

\* lines 293-296: the try is left with exception e or with none: driver.quit()
\* in the finally, then the return of the rows or the exception going on to the
\* page. The function's locals end with it.
Leave(e) ==
    /\ driver' = "quit"
    /\ quits' = quits + 1
    /\ exc' = e
    /\ messages' = Shown(results, e)
    /\ results' = (IF e = NoExc THEN results ELSE <<>>)
    /\ pc' = "done"
    /\ sites' = <<>> /\ total_operations' = 0 /\ current_operation' = 0
    /\ row_idx' = 0 /\ brand' = None /\ keywords' = <<>> /\ kw_idx' = 0
    /\ site_idx' = 0
    /\ TaskLocalsCleared
    /\ queries' = <<>> /\ rows_before' = 0 /\ task_state' = "none" /\ dropped' = 0
    /\ UNCHANGED <<cfgVars, callVars, starts, logVars>>

HasBrandColumn(df) == \E i \in 1..Len(df.columns) : df.columns[i] = "Brand"

\* lines 222-224: the next row, its brand and its keywords; row['Brand'] raises
\* KeyError without the column, and nothing in the loop catches it
NextRow ==
    /\ pc = "rows"
    /\ IF row_idx >= Len(df_input.rows)
       THEN /\ pc' = "finally"
            /\ UNCHANGED <<cfgVars, callVars, loopVars, taskVars, sessVars, results,
                           exc, messages, noteVars, logVars>>
       ELSE IF ~HasBrandColumn(df_input)
       THEN Leave("KeyError")
       ELSE /\ row_idx' = row_idx + 1
            /\ brand' = df_input.rows[row_idx + 1]["Brand"]
            /\ keywords' = RowKeywords(df_input.rows[row_idx + 1], df_input.columns)
            /\ kw_idx' = 0
            /\ pc' = "keywords"
            /\ UNCHANGED <<cfgVars, callVars, sites, total_operations,
                           current_operation, site_idx, taskVars, sessVars, results,
                           exc, messages, noteVars, logVars>>

\* line 226: the next keyword of the row
NextKeyword ==
    /\ pc = "keywords"
    /\ IF kw_idx < Len(keywords)
       THEN kw_idx' = kw_idx + 1 /\ site_idx' = 0 /\ pc' = "sites"
       ELSE pc' = "rows" /\ UNCHANGED <<kw_idx, site_idx>>
    /\ UNCHANGED <<cfgVars, callVars, sites, total_operations, current_operation,
                   row_idx, brand, keywords, taskVars, sessVars, results, exc,
                   messages, noteVars, logVars>>

\* line 231: progress = current_operation / total_operations, as the pair
ProgressFraction(current, total) == <<current, total>>

\* lines 229-243: the next site; the counter, the progress report, the task's
\* empty set. The division raises when total_operations is 0.
BeginTask ==
    /\ pc = "sites"
    /\ IF site_idx >= Len(sites)
       THEN /\ pc' = "keywords"
            /\ UNCHANGED <<cfgVars, callVars, loopVars, taskVars, sessVars, results,
                           exc, messages, noteVars, logVars>>
       ELSE IF total_operations = 0
       THEN Leave("ZeroDivisionError")
       ELSE /\ site_idx' = site_idx + 1
            /\ current_operation' = current_operation + 1
            /\ progress_log' = Append(progress_log,
                   ProgressFraction(current_operation + 1, total_operations))
            /\ TaskLocalsCleared
            /\ queries' = <<>>
            /\ rows_before' = Len(results)
            /\ task_state' = "running"
            /\ dropped' = 0
            /\ pc' = "get"
            /\ UNCHANGED <<cfgVars, callVars, sites, total_operations, row_idx, brand,
                           keywords, kw_idx, sessVars, results, exc, messages,
                           fetched, warnings>>

(* ------------------------------ one task ------------------------------ *)
site_name == sites[site_idx]
config == all_configs[site_name]

\* the rows of lines 285-291 for the hrefs in `order` (Scraped At left out)
RowsFor(order) ==
    [i \in 1..Len(order) |->
        [Brand |-> brand, Keyword |-> keywords[kw_idx], Site |-> site_name,
         Product_URL |-> order[i]]]

\* the orders in which a set can be iterated
Orders(S) ==
    {q \in [1..Cardinality(S) -> S] : \A i, j \in 1..Cardinality(S) :
                                          i # j => q[i] # q[j]}

\* a faulty variant: the handler falls through to the rows of lines 284-291
TaskErrorEmits ==
    /\ warnings' = Append(warnings, current_operation)
    /\ task_state' = "error"
    /\ dropped' = Cardinality(unique_links)
    /\ pc' = "sites"
    /\ \E order \in Orders(unique_links) : results' = results \o RowsFor(order)
    /\ TaskLocalsCleared
    /\ queries' = <<>>
    /\ UNCHANGED <<cfgVars, callVars, loopVars, sessVars, exc, messages,
                   rows_before, progress_log>>

\* lines 280-282: an exception inside the task's try: the warning, then continue
\* with the next site. Every variable but `fetched`.
TaskError ==
    /\ warnings' = Append(warnings, current_operation)
    /\ task_state' = "error"
    /\ dropped' = Cardinality(unique_links)
    /\ pc' = "sites"
    /\ TaskLocalsCleared
    /\ queries' = <<>>
    /\ UNCHANGED <<cfgVars, callVars, loopVars, sessVars, results, exc, messages,
                   rows_before, progress_log>>

\* a step of the task that neither fails nor touches the task's locals
TaskGoesOn ==
    UNCHANGED <<cfgVars, callVars, loopVars, taskVars, sessVars, results, exc,
                messages, noteVars, progress_log, warnings>>

\* line 246: driver.get(search_url); the page loads or the call raises
Navigate ==
    /\ pc = "get"
    /\ fetched' = Append(fetched, <<row_idx, kw_idx, site_idx>>)
    /\ \/ TaskError
       \/ pc' = "scroll" /\ TaskGoesOn

\* line 248: the scroll script runs or raises
Scroll ==
    /\ pc = "scroll"
    /\ UNCHANGED fetched
    /\ \/ TaskError
       \/ pc' = "find" /\ TaskGoesOn

\* line 253: the fallback selectors are tried when the primary found nothing
NeedsFallback(found, cfg) == found = <<>> /\ cfg.additional_selectors # <<>>

\* where the task goes once `links` is complete: the loop of line 257 or past it
AfterExtract(found) == IF found = <<>> THEN "emit" ELSE "links"

\* line 251: the primary selector's elements, or the query raises
FindPrimary ==
    /\ pc = "find"
    /\ UNCHANGED fetched
    /\ \/ TaskError
       \/ \E found \in ElementSeqs(MaxLinks) :
            /\ links' = found
            /\ queries' = <<config.product_selector>>
            /\ IF NeedsFallback(found, config)
               THEN pc' = "fallback" /\ sel_idx' = 1 /\ link_idx' = link_idx
               ELSE pc' = AfterExtract(found) /\ link_idx' = 1 /\ sel_idx' = sel_idx
            /\ UNCHANGED <<cfgVars, callVars, loopVars, unique_links, should_add,
                           sessVars, results, exc, messages, rows_before, task_state,
                           dropped, progress_log, warnings>>

\* a faulty variant: the fallback loop stops at the first selector that finds something
FallbackDoneAtFirstHit(found, idx, cfg) ==
    found # <<>> \/ idx >= Len(cfg.additional_selectors)

\* line 254: the loop over additional_selectors ends after the last of them
FallbackDone(found, idx, cfg) == idx >= Len(cfg.additional_selectors)

\* lines 254-255: one fallback selector's elements are appended, or the query
\* raises
FindFallback ==
    /\ pc = "fallback"
    /\ UNCHANGED fetched
    /\ \/ TaskError
       \/ \E found \in ElementSeqs(MaxLinks - Len(links)) :
            /\ links' = links \o found
            /\ queries' = Append(queries, config.additional_selectors[sel_idx])
            /\ IF FallbackDone(found, sel_idx, config)
               THEN pc' = AfterExtract(links \o found) /\ link_idx' = 1
                    /\ sel_idx' = sel_idx
               ELSE pc' = "fallback" /\ sel_idx' = sel_idx + 1
                    /\ link_idx' = link_idx
            /\ UNCHANGED <<cfgVars, callVars, loopVars, unique_links, should_add,
                           sessVars, results, exc, messages, rows_before, task_state,
                           dropped, progress_log, warnings>>

\* `x or ""` on an attribute
OrEmpty(v) == IF v = None THEN <<>> ELSE v

\* line 259: `href and config['domain_check'] in href`
PassesDomain(cfg, e) ==
    /\ e.href # None
    /\ e.href # <<>>
    /\ Contains(e.href, cfg.domain_check)

\* a faulty variant: without lines 271-272
ShouldAddNoOverride(cfg, e, b, enabled, thr) ==
    IF cfg.brand_in_url
    THEN fuzzy_match_brand(enabled, e.href, b, thr)
    ELSE fuzzy_match_brand(enabled,
            Strip(e.text) \o <<" ">> \o OrEmpty(e.title) \o <<" ">> \o OrEmpty(e.alt),
            b, thr)

\* lines 260-272: should_add for an element that passed the domain filter
ShouldAdd(cfg, e, b, enabled, thr) ==
    IF cfg.brand_in_url
    THEN fuzzy_match_brand(enabled, e.href, b, thr)
    ELSE LET link_text == Strip(e.text)
             title_attr == OrEmpty(e.title)
             alt_attr == OrEmpty(e.alt)
             combined_text == link_text \o <<" ">> \o title_attr \o <<" ">> \o alt_attr
             matched == fuzzy_match_brand(enabled, combined_text, b, thr)
         IN  IF ~enabled THEN TRUE ELSE matched

\* a faulty variant: the loop goes on until the set is above the cap
CapReachedAbove(accepted, cap) == Cardinality(accepted) > cap

\* line 277: len(unique_links) >= max_links_per_site
CapReached(accepted, cap) == Cardinality(accepted) >= cap

\* lines 259-272: should_add for one element, unset when the domain filter
\* drops it
LinkVerdict(cfg, e, b, enabled, thr) ==
    IF PassesDomain(cfg, e) THEN PyBool(ShouldAdd(cfg, e, b, enabled, thr)) ELSE Unset

\* lines 274-278 with the verdict for the element: the set, then the cap
LinkDone(e, verdict, accepted) ==
    /\ should_add' = verdict
    /\ unique_links' = accepted
    /\ link_idx' = link_idx + 1
    /\ pc' = IF (verdict # Unset /\ CapReached(accepted, max_links_per_site))
                \/ link_idx + 1 > Len(links)
             THEN "emit" ELSE "links"
    /\ UNCHANGED <<cfgVars, callVars, loopVars, links, sel_idx, sessVars, results,
                   exc, messages, noteVars, progress_log, warnings>>

LinkJudged(e, verdict) ==
    LinkDone(e, verdict,
             IF verdict = "True" THEN unique_links \cup {e.href} ELSE unique_links)

\* lines 257-278: one element of `links`: its href, the domain filter, the
\* match, the set, the cap; or a read of the element raises
ProcessLink ==
    /\ pc = "links"
    /\ link_idx <= Len(links)
    /\ UNCHANGED fetched
    /\ \/ TaskError
       \/ LinkJudged(Element(site_name, links[link_idx]),
                     LinkVerdict(config, Element(site_name, links[link_idx]), brand,
                                 fuzzy_enabled, fuzzy_threshold))

\* lines 284-291: one row per accepted href, in the set's iteration order
Emit ==
    /\ pc = "emit"
    /\ \E order \in Orders(unique_links) : results' = results \o RowsFor(order)
    /\ task_state' = "ok"
    /\ pc' = "sites"
    /\ TaskLocalsCleared
    /\ queries' = <<>>
    /\ UNCHANGED <<cfgVars, callVars, loopVars, sessVars, exc, messages,
                   rows_before, dropped, logVars>>

(* --------------------------- the run's end ---------------------------- *)
\* lines 293-296 after the loop ran out of rows
Finally ==
    /\ pc = "finally"
    /\ Leave(NoExc)

\* the operator stops the script: Streamlit raises its stop exception inside
\* the next call the script makes to it, which are the progress and status
\* calls of lines 232-233 and the warning of line 281, so between two tasks;
\* it is no Exception, passes the handler of line 280 and leaves through the
\* finally
Abort ==
    /\ pc = "sites"
    /\ Leave("Stop")

RunStep ==
    \/ DriverStarted \/ DriverFailed
    \/ NextRow \/ NextKeyword \/ BeginTask
    \/ Navigate \/ Scroll \/ FindPrimary \/ FindFallback \/ ProcessLink \/ Emit
    \/ Finally

Next == StartScraping \/ RunStep \/ Abort

Spec == Init /\ [][Next]_vars

\* the settings of a run whose end is followed: the slider at its default of
\* line 84 when fuzzy matching is on
FairInit == Init /\ (fuzzy_enabled => fuzzy_threshold = 80)

\* run_scraper is sequential code: once entered, its next step is taken
FairSpec == FairInit /\ [][Next]_vars /\ WF_vars(RunStep)


(* ----------------------- fuzzy_match_brand alone ---------------------- *)
Alphabet == {"a", "b", "A", " "}

RECURSIVE Strs(_)
Strs(n) ==
    IF n = 0
    THEN {<<>>}
    ELSE Strs(n - 1)
         \cup {Append(q, c) : q \in {r \in Strs(n - 1) : Len(r) = n - 1}, c \in Alphabet}

\* thresholds the function is called with
CallThresholds == {70, 80, 100}

MatchInit ==
    /\ sites_config = {}
    /\ fuzzy_enabled \in BOOLEAN
    /\ fuzzy_threshold = ThresholdOff
    /\ max_links_per_site = 1
    /\ uploaded_csv = FALSE
    /\ df_input = NoTable
    /\ RunIdle
    /\ text \in Strs(MaxTextLen)
    /\ brand_name \in Strs(MaxBrandLen)
    /\ threshold \in CallThresholds
    /\ returned = Unset

\* one call fuzzy_match_brand(text, brand_name, threshold)
MatchCall ==
    /\ returned = Unset
    /\ returned' = PyBool(fuzzy_match_brand(fuzzy_enabled, text, brand_name, threshold))
    /\ UNCHANGED <<cfgVars, pc, loopVars, taskVars, sessVars, results, exc, messages,
                   noteVars, logVars, text, brand_name, threshold>>

MatchNext == MatchCall

MatchSpec == MatchInit /\ [][MatchNext]_vars

(* ------------------------------ properties --------------------------- *)
InTask == pc \in {"get", "scroll", "find", "fallback", "links", "emit"}

\* brand is a literal substring of text when case is ignored
CaseInsensitiveSubstring(t, b) ==
    \E i \in 0..(Len(t) - Len(b)) :
        \A k \in 1..Len(b) : LowerChar(t[i + k]) = LowerChar(b[k])

\* the hrefs of `links` that pass the domain filter and the brand match
QualifyingHrefs ==
    {Element(site_name, links[i]).href :
        i \in {j \in 1..Len(links) :
                /\ PassesDomain(config, Element(site_name, links[j]))
                /\ ShouldAdd(config, Element(site_name, links[j]), brand,
                             fuzzy_enabled, fuzzy_threshold)}}

\* C1: the set of accepted hrefs of a task never holds more than
\* max_links_per_site elements, and a task that completes without error
\* appends exactly min(max_links_per_site, number of distinct qualifying
\* hrefs among its candidates) rows to the results.
C1_CapAndRows ==
    /\ [](Cardinality(unique_links) <= max_links_per_site)
    /\ [][(pc = "emit" /\ pc' = "sites")
            => Len(results') - Len(results)
                 = Min(max_links_per_site, Cardinality(QualifyingHrefs))]_vars

\* cap 1, two distinct qualifying hrefs among the candidates, one accepted
C1_Witness ==
    /\ pc = "emit"
    /\ max_links_per_site = 1
    /\ Cardinality(QualifyingHrefs) = 2
    /\ Cardinality(unique_links) = 1

\* the tasks of a run over table df and the sites in order: row, keyword of
\* the row, site
TaskSet(df, order) ==
    {t \in (1..Len(df.rows)) \X (1..Len(df.columns)) \X (1..Len(order)) :
        t[2] <= Len(RowKeywords(df.rows[t[1]], df.columns))}

TaskBefore(t, u) ==
    \/ t[1] < u[1]
    \/ t[1] = u[1] /\ t[2] < u[2]
    \/ t[1] = u[1] /\ t[2] = u[2] /\ t[3] < u[3]

\* C2: a failure inside a task is caught at the task: the results are as they
\* were when the task began, also when hrefs had been accepted, the warning
\* names the task, the session stays open and the run goes on with the loop;
\* the pages are fetched in task order, none twice, and a run that ends without
\* exception has fetched every task of the table.
C2_TaskErrorSkips ==
    /\ task_state = "error"
        => /\ Len(results) = rows_before
           /\ warnings # <<>>
           /\ warnings[Len(warnings)] = current_operation
           /\ pc \in {"sites", "keywords", "rows", "finally"}
           /\ Len(fetched) = current_operation
           /\ driver = "open"
           /\ exc = NoExc
    /\ \A i \in 1..Len(fetched) : \A j \in 1..Len(fetched) :
            i < j => TaskBefore(fetched[i], fetched[j])
    /\ (pc = "done" /\ exc = NoExc /\ starts = 1)
        => {fetched[i] : i \in 1..Len(fetched)}
             = TaskSet(df_input, selected_sites(sites_config))

\* a task has failed after an href had been accepted
C2_Witness ==
    /\ task_state = "error"
    /\ dropped > 0
    /\ results = <<>>

\* C3: a run starts at most one browser session; a session that was started
\* is eventually closed, and closed exactly once when the run has ended,
\* whether it ended normally, without rows, by an exception or by a stop; tasks
\* run only while the session is open and no page is fetched after the close.
C3_SessionReleased ==
    /\ [](starts <= 1 /\ quits <= starts)
    /\ []((pc = "done" /\ starts = 1) => (quits = 1 /\ driver = "quit"))
    /\ [](InTask => driver = "open")
    /\ [][(driver = "quit" /\ pc' # "driver") => fetched' = fetched]_vars
    /\ (driver = "open" ~> driver = "quit")

\* a stopped run after a page was fetched: the session is closed, once
C3_Witness ==
    /\ pc = "done"
    /\ exc = "Stop"
    /\ fetched # <<>>
    /\ driver = "quit"
    /\ quits = 1

\* C4: when the browser session does not start, the run is over with the
\* error shown: no session, no progress update, no task, no page fetched, no
\* warning, no row.
C4_DriverFailureFatal ==
    "chrome_error" \in messages
        => /\ pc = "done"
           /\ driver = "none"
           /\ starts = 0
           /\ progress_log = <<>>
           /\ task_state = "none"
           /\ fetched = <<>>
           /\ warnings = <<>>
           /\ results = <<>>

C4_Witness == "chrome_error" \in messages /\ uploaded_csv /\ df_input.rows # <<>>

\* C5: a table whose columns do not validate never leaves the idle state.
C5_RejectedBeforeScraping ==
    (uploaded_csv /\ Validation(df_input) # "success")
        => (pc = "idle" /\ starts = 0)

\* C6: fuzzy_match_brand returns true whenever the brand is a substring of
\* the text with case ignored, with fuzzy matching on or off and for every
\* threshold; with fuzzy matching off it returns true in that case only.
C6_SubstringMatch ==
    returned # Unset
        => /\ CaseInsensitiveSubstring(text, brand_name) => returned = "True"
           /\ ~fuzzy_enabled
                => (returned = "True" <=> CaseInsensitiveSubstring(text, brand_name))

\* a brand with an upper-case letter found in a longer text at threshold 100
C6_Witness ==
    /\ returned = "True"
    /\ fuzzy_enabled
    /\ threshold = 100
    /\ brand_name # <<>>
    /\ brand_name # Lower(brand_name)
    /\ text # Lower(text)
    /\ Len(text) > Len(brand_name)

\* the candidate the link loop has just judged
JudgedElement == Element(site_name, links[link_idx - 1])

\* C7: with fuzzy matching off, a candidate that passed the domain filter is
\* accepted on a site with brand_in_url false whatever its text, and on a site
\* with brand_in_url true exactly when the brand is a substring of the href
\* with case ignored; an accepted href is in the set.
C7_DisabledAcceptance ==
    (pc \in {"links", "emit"} /\ link_idx > 1 /\ ~fuzzy_enabled)
        => /\ should_add # Unset <=> PassesDomain(config, JudgedElement)
           /\ should_add # Unset
                => should_add
                     = PyBool(IF config.brand_in_url
                              THEN CaseInsensitiveSubstring(JudgedElement.href, brand)
                              ELSE TRUE)
           /\ should_add = "True" => JudgedElement.href \in unique_links

\* fuzzy matching off, brand_in_url false, a candidate whose text, title and
\* alt do not hold the brand is accepted
C7_Witness ==
    /\ pc \in {"links", "emit"}
    /\ link_idx > 1
    /\ ~fuzzy_enabled
    /\ ~config.brand_in_url
    /\ links[link_idx - 1] = 2
    /\ should_add = "True"
    /\ JudgedElement.href \in unique_links

\* C8: progress is reported once per task and before the task's fetch; each
\* fraction has a non-zero denominator, lies in 0..1 and is greater than the
\* one before it; no run divides by zero.
C8_Progress ==
    /\ \A i \in 1..Len(progress_log) :
            /\ progress_log[i][2] # 0
            /\ 0 <= progress_log[i][1]
            /\ progress_log[i][1] <= progress_log[i][2]
            /\ i > 1 => progress_log[i][1] * progress_log[i - 1][2]
                          > progress_log[i - 1][1] * progress_log[i][2]
    /\ Len(progress_log) = Len(fetched) + (IF pc = "get" THEN 1 ELSE 0)
    /\ pc \notin {"idle", "driver", "done"} => Len(progress_log) = current_operation
    /\ exc # "ZeroDivisionError"

\* the second task of a run is reported, its page not yet fetched
C8_Witness ==
    /\ pc = "get"
    /\ Len(progress_log) = 2
    /\ Len(fetched) = 1

\* C9: the fraction reported at the last task of a run that ends without
\* exception is 1.
C9_LastFractionIsOne ==
    (pc = "done" /\ exc = NoExc /\ progress_log # <<>>)
        => progress_log[Len(progress_log)][1] = progress_log[Len(progress_log)][2]

IsPrefix(q, r) == Len(q) <= Len(r) /\ SubSeq(r, 1, Len(q)) = q

\* C10: the fallback selectors are queried only after the primary selector
\* found nothing on a site that has them, then all of them in the listed
\* order, each one's elements added to the candidates; otherwise the primary
\* selector is the only query.
C10_FallbackSelectors ==
    /\ [](pc = "fallback"
            => /\ config.additional_selectors # <<>>
               /\ sel_idx \in 1..Len(config.additional_selectors)
               /\ queries = <<config.product_selector>>
                             \o SubSeq(config.additional_selectors, 1, sel_idx - 1))
    /\ [](pc \in {"links", "emit"}
            => /\ queries \in {<<config.product_selector>>,
                               <<config.product_selector>>
                                 \o config.additional_selectors}
               /\ (queries = <<config.product_selector>>
                   /\ config.additional_selectors # <<>>) => links # <<>>)
    /\ [][/\ (pc = "find" /\ pc' = "fallback") => links' = <<>>
          /\ (pc = "fallback" /\ pc' \in {"fallback", "links", "emit"})
                => /\ IsPrefix(links, links')
                   /\ queries' = Append(queries,
                                        config.additional_selectors[sel_idx])]_vars

\* the third fallback selector is about to be queried although an earlier one
\* found elements
C10_Witness ==
    /\ pc = "fallback"
    /\ sel_idx = 3
    /\ links # <<>>

====
